---------------------------- MODULE Spec2Model ----------------------------
(***************************************************************************)
(* The sliding-puzzle engine of src/src/App.tsx: the board generator       *)
(* (initPuzzle: shuffle, isSolvable, the rejection loop), the move handler *)
(* (handleTileClick), the per-second interval, and the handlers that touch *)
(* the same state (onDrop, resetGame, the grid-size buttons).              *)
(*                                                                         *)
(* A JavaScript array is a function from its integer keys to its values.   *)
(* Keys are 0-based, as in the source.                                     *)
(***************************************************************************)
EXTENDS Integers, Sequences, FiniteSets, TLC

VARIABLES
    image,      \* TRUE when the image state holds a data URL, FALSE when null
    gridSize,   \* the gridSize state
    puzzle,     \* the puzzle state (PuzzleState)
    timerRef,   \* timerRef.current: "null", "live" (a running interval) or
                \* "cleared" (the id of an interval already cleared)
    intervals,  \* number of intervals set and not yet cleared
    loop        \* the call of initPuzzle inside its do-while loop: where it
                \* is, its local shuffledTiles, and how many shuffles the
                \* loop has rejected (counted up to MaxRejected)

vars == <<image, gridSize, puzzle, timerRef, intervals, loop>>

----------------------------------------------------------------------------
(* Bounds of the model *)

\* accepted moves per session
MaxMoves == 2
\* timer ticks per session
MaxSeconds == 1
\* iterations of the shuffle loop whose random draw is enumerated; the
\* remaining iterations draw j = i
MaxShuffled == 1
\* how far below i an enumerated draw may lie
MaxBack == 3
\* enumerated iterations of the shuffle loop in the generator specification
MaxGenShuffled == 2
\* how far below i an enumerated draw may lie in the generator specification
MaxGenBack == 8
\* how far outside the board a position handed to the handler may lie
MaxOutside == 3
\* enumerated iterations of the shuffle loop when the do-while loop is
\* followed step by step
MaxLoopShuffled == 2
\* how far below i an enumerated draw may lie there
MaxLoopBack == 2
\* rejected shuffles counted
MaxRejected == 2

----------------------------------------------------------------------------
(* Program constants *)

GridSizes == {3, 4, 5}

\* grid sizes for which the generator is checked against slide reachability
GenSizes == {2, 3, 4, 5}

\* the value a read of a missing array element yields
Undefined == -1

----------------------------------------------------------------------------
(* JavaScript arithmetic and arrays *)

\* a % b of JavaScript: the sign of the result is the sign of a
JsRem(a, b) == IF a >= 0 THEN a % b ELSE 0 - ((0 - a) % b)

Abs(x) == IF x < 0 THEN 0 - x ELSE x

\* array.length: one more than the largest index
Length(a) ==
    LET idx == {k \in DOMAIN a : k >= 0}
    IN  IF idx = {} THEN 0
        ELSE (CHOOSE k \in idx : \A m \in idx : m <= k) + 1

\* a[k]
Get(a, k) == IF k \in DOMAIN a THEN a[k] ELSE Undefined

\* a[k] = v
Put(a, k, v) == [i \in (DOMAIN a) \cup {k} |-> IF i = k THEN v ELSE a[i]]

\* [...a]: the elements at 0..length-1, holes read as undefined, other
\* properties dropped
Spread(a) == [i \in 0..(Length(a) - 1) |-> Get(a, i)]

\* a.indexOf(v)
IndexOf(a, v) ==
    LET hits == {k \in DOMAIN a : k >= 0 /\ a[k] = v}
    IN  IF hits = {} THEN -1
        ELSE CHOOSE k \in hits : \A m \in hits : k <= m

\* the empty array
EmptyArray == [i \in {} |-> 0]


\* [a[i], a[j]] = [a[j], a[i]]: both reads are made before the two writes
SwapEntries(a, i, j) == Put(Put(a, i, Get(a, j)), j, Get(a, i))

----------------------------------------------------------------------------
(* The board generator (initPuzzle) *)

\* Array.from({ length: totalTiles }, (_, i) => i)
initialTiles(size) == [i \in 0..(size * size - 1) |-> i]

\* The values Math.floor(Math.random() * (i + 1)) takes over one run of the
\* shuffle loop: draws[i] in 0..i for i = n-1 down to 1.  Only the first
\* `depth` iterations are enumerated, with draws no more than `back` below
\* i; the other iterations draw i (no exchange).
Draws(n, depth, back) ==
    LET free == {i \in 1..(n - 1) : i >= n - depth}
        below == {g \in [free -> 0..back] : \A i \in free : g[i] <= i}
    IN  {[i \in 1..(n - 1) |-> IF i \in free THEN i - g[i] ELSE i] : g \in below}

RECURSIVE ShuffleLoop(_, _, _)
ShuffleLoop(shuffled, i, draws) ==
    IF i <= 0 THEN shuffled
    ELSE ShuffleLoop(SwapEntries(shuffled, i, draws[i]), i - 1, draws)

\* shuffle (Fisher-Yates) with the random draws made explicit
shuffle(array, draws) == ShuffleLoop(Spread(array), Length(array) - 1, draws)

\* The inversion count of isSolvable.  flatTiles is tiles without the empty
\* identifier, in board order, so its inversions are the pairs of board
\* positions i < j that both hold a tile, with tiles[i] > tiles[j].
Inversions(tiles, totalTiles) ==
    Cardinality({ij \in (DOMAIN tiles) \X (DOMAIN tiles) :
                    /\ ij[1] < ij[2]
                    /\ tiles[ij[1]] # totalTiles - 1
                    /\ tiles[ij[2]] # totalTiles - 1
                    /\ tiles[ij[1]] > tiles[ij[2]]})

SolvableByInversions(tiles, size) ==
    Inversions(tiles, size * size) % 2 = 0

NeverSolvable(tiles, size) == FALSE

SolvableWrongRow(tiles, size) ==
    LET totalTiles == size * size
        inversions == Inversions(tiles, totalTiles)
    IN  IF size % 2 # 0
        THEN inversions % 2 = 0
        ELSE LET emptyRowFromBottom ==
                     size - 1 - (IndexOf(tiles, totalTiles - 1) \div size)
             IN  IF emptyRowFromBottom % 2 = 0
                 THEN inversions % 2 # 0
                 ELSE inversions % 2 = 0

isSolvable(tiles, size) ==
    LET totalTiles == size * size
        inversions == Inversions(tiles, totalTiles)
    IN  IF size % 2 # 0
        THEN inversions % 2 = 0
        ELSE LET emptyRowFromBottom ==
                     size - (IndexOf(tiles, totalTiles - 1) \div size)
             IN  IF emptyRowFromBottom % 2 = 0
                 THEN inversions % 2 # 0
                 ELSE inversions % 2 = 0

LoopExitsOnEither(shuffledTiles, size) ==
    isSolvable(shuffledTiles, size) \/ shuffledTiles # initialTiles(size)

\* the negation of the do-while condition: the loop is left with this board
LoopExits(shuffledTiles, size) ==
    ~(~isSolvable(shuffledTiles, size) \/ shuffledTiles = initialTiles(size))

\* the boards the rejection loop can end with
GeneratedBoards(size, depth, back) ==
    {b \in {shuffle(initialTiles(size), d) :
                d \in Draws(size * size, depth, back)} :
        LoopExits(b, size)}

----------------------------------------------------------------------------
(* The timer *)

AfterNoClear == intervals

\* if (timerRef.current) clearInterval(timerRef.current): the number of
\* running intervals afterwards.  Clearing an id twice does nothing.
AfterClear == IF timerRef = "live" THEN intervals - 1 ELSE intervals

\* timerRef.current after the clearInterval: the ref keeps the id
ClearedRef == IF timerRef = "null" THEN "null" ELSE "cleared"

TickedResettingMoves(prev) == [prev EXCEPT !.seconds = prev.seconds + 1, !.moves = 0]

\* the interval callback: setPuzzle(prev => ({ ...prev, seconds: prev.seconds + 1 }))
Ticked(prev) == [prev EXCEPT !.seconds = prev.seconds + 1]

\* One firing of a running interval.
Tick ==
    /\ intervals > 0
    /\ puzzle.seconds < MaxSeconds
    /\ puzzle' = Ticked(puzzle)
    /\ UNCHANGED <<image, gridSize, timerRef, intervals, loop>>

----------------------------------------------------------------------------
(* initPuzzle *)

StartedKeepingCounters(shuffledTiles, totalTiles) ==
    [puzzle EXCEPT !.tiles = shuffledTiles,
                   !.emptyIndex = IndexOf(shuffledTiles, totalTiles - 1),
                   !.isStarted = TRUE,
                   !.isSolved = FALSE]

\* the object handed to setPuzzle once the loop has ended
StartedPuzzle(shuffledTiles, totalTiles) ==
    [tiles      |-> shuffledTiles,
     emptyIndex |-> IndexOf(shuffledTiles, totalTiles - 1),
     moves      |-> 0,
     seconds    |-> 0,
     isStarted  |-> TRUE,
     isSolved   |-> FALSE]

\* the boards initPuzzle(size) can end its loop with, per grid size
LoopResults ==
    [size \in GridSizes |-> GeneratedBoards(size, MaxShuffled, MaxBack)]

\* initPuzzle(size) storing the board its loop ended with.  Rejected
\* shuffles change no state.
initPuzzleWith(size, shuffledTiles) ==
    /\ puzzle' = StartedPuzzle(shuffledTiles, size * size)
    /\ intervals' = AfterClear + 1
    /\ timerRef' = "live"

initPuzzle(size) ==
    \E shuffledTiles \in LoopResults[size] : initPuzzleWith(size, shuffledTiles)

----------------------------------------------------------------------------
(* handleTileClick *)

\* isAdjacent, computed with the grid size `size`
isAdjacent(index, emptyIdx, size) ==
    LET row == index \div size
        col == JsRem(index, size)
        emptyRow == emptyIdx \div size
        emptyCol == JsRem(emptyIdx, size)
    IN  \/ (Abs(row - emptyRow) = 1 /\ col = emptyCol)
        \/ (Abs(col - emptyCol) = 1 /\ row = emptyRow)

\* newTiles after the exchange
newTilesOf(tiles, index, emptyIdx) == SwapEntries(Spread(tiles), index, emptyIdx)

\* newTiles.every((tile, i) => tile === i): every visits the indices below
\* length that are present
solvedTiles(newTiles) ==
    \A i \in {k \in DOMAIN newTiles : k >= 0} : newTiles[i] = i

IgnoredOnlyWhenSolved(p) == p.isSolved

IgnoredUnlessStarted(p) == ~p.isStarted

\* the early return of line 84
ClickIgnored(p) == ~p.isStarted \/ p.isSolved

MovedKeepingEmptyIndex(render, prev, index) ==
    LET newTiles == newTilesOf(render.tiles, index, render.emptyIndex)
    IN  [prev EXCEPT !.tiles = newTiles,
                     !.moves = prev.moves + 1,
                     !.isSolved = solvedTiles(newTiles)]

MovedFromRender(render, prev, index) ==
    LET newTiles == newTilesOf(render.tiles, index, render.emptyIndex)
    IN  [render EXCEPT !.tiles = newTiles,
                       !.emptyIndex = index,
                       !.moves = render.moves + 1,
                       !.isSolved = solvedTiles(newTiles)]

MovedKeepingFlag(render, prev, index) ==
    LET newTiles == newTilesOf(render.tiles, index, render.emptyIndex)
    IN  [prev EXCEPT !.tiles = newTiles,
                     !.emptyIndex = index,
                     !.moves = prev.moves + 1]

\* the updater of lines 108-114, applied to prev; newTiles and solved come
\* from the rendered puzzle `render` the handler closed over
Moved(render, prev, index) ==
    LET newTiles == newTilesOf(render.tiles, index, render.emptyIndex)
    IN  [prev EXCEPT !.tiles = newTiles,
                     !.emptyIndex = index,
                     !.moves = prev.moves + 1,
                     !.isSolved = solvedTiles(newTiles)]

\* TRUE when handleTileClick(index) reaches the exchange
ClickAccepted(p, size, index) ==
    ~ClickIgnored(p) /\ isAdjacent(index, p.emptyIndex, size)

\* the puzzle state handleTileClick(index) leaves, every event being
\* rendered before the next one is handled
Clicked(p, size, index) ==
    IF ClickAccepted(p, size, index) THEN Moved(p, p, index) ELSE p

handleTileClick(index) ==
    /\ puzzle' = Clicked(puzzle, gridSize, index)
    /\ IF ClickAccepted(puzzle, gridSize, index) /\ puzzle'.isSolved
       THEN intervals' = AfterClear /\ timerRef' = ClearedRef
       ELSE UNCHANGED <<timerRef, intervals>>
    /\ UNCHANGED <<image, gridSize, loop>>

----------------------------------------------------------------------------
(* The other handlers *)

\* reader.onload of onDrop
onDrop ==
    /\ image' = TRUE
    /\ puzzle' = [puzzle EXCEPT !.isStarted = FALSE, !.isSolved = FALSE]
    /\ UNCHANGED <<gridSize, timerRef, intervals, loop>>

\* resetGame
resetGame ==
    IF image
    THEN initPuzzle(gridSize) /\ UNCHANGED <<image, gridSize, loop>>
    ELSE UNCHANGED vars

\* onClick={() => setGridSize(size as GridSize)}
setGridSize(size) ==
    /\ gridSize' = size
    /\ UNCHANGED <<image, puzzle, timerRef, intervals, loop>>

\* onClick={() => setImage(null)}
clearImage ==
    /\ image' = FALSE
    /\ UNCHANGED <<gridSize, puzzle, timerRef, intervals, loop>>

----------------------------------------------------------------------------
(* The application: the handlers as the rendered page lets them fire *)

\* no call of initPuzzle is inside its loop
NotInLoop == [pc |-> "idle", shuffledTiles |-> EmptyArray, rejected |-> 0]

Init ==
    /\ image = FALSE
    /\ gridSize = 3
    /\ puzzle = [tiles      |-> EmptyArray,
                 emptyIndex |-> -1,
                 moves      |-> 0,
                 seconds    |-> 0,
                 isStarted  |-> FALSE,
                 isSolved   |-> FALSE]
    /\ timerRef = "null"
    /\ intervals = 0
    /\ loop = NotInLoop

\* the indices of the rendered tile buttons: puzzle.tiles.map((_, index) => ...)
RenderedCells == 0..(Length(puzzle.tiles) - 1)

\* A tile button is on the page when an image is set and the puzzle is
\* started, and is disabled once the puzzle is solved.
TileClick ==
    /\ image /\ puzzle.isStarted /\ ~puzzle.isSolved
    /\ puzzle.moves < MaxMoves
    /\ \E index \in RenderedCells : handleTileClick(index)

\* The dropzone is on the page while no image is set.
DropImage == ~image /\ onDrop

\* The controls panel (grid sizes, start, other image) is on the page while
\* an image is set; the "play again" button while the puzzle is solved.
StartClick == (image \/ puzzle.isSolved) /\ resetGame

SizeClick == image /\ \E size \in GridSizes : setGridSize(size)

OtherImageClick == image /\ clearImage

Next ==
    \/ TileClick
    \/ Tick
    \/ StartClick
    \/ SizeClick
    \/ DropImage
    \/ OtherImageClick

Spec == Init /\ [][Next]_vars

----------------------------------------------------------------------------
(* The handlers invoked directly: any handler in any state, and              *)
(* handleTileClick with any position near the board, rendered or not.       *)

ApiPositions == (0 - MaxOutside)..(Length(puzzle.tiles) - 1 + MaxOutside)

ApiMove ==
    /\ puzzle.moves < MaxMoves
    /\ \E index \in ApiPositions : handleTileClick(index)

ApiSize == \E size \in GridSizes : setGridSize(size)

NextApi ==
    \/ ApiMove
    \/ Tick
    \/ resetGame
    \/ ApiSize
    \/ onDrop
    \/ clearImage

SpecApi == Init /\ [][NextApi]_vars

----------------------------------------------------------------------------
(* The engine on one grid size: a first initPuzzle(size) on the grid size   *)
(* selected, then moves on cells of the board.                               *)

\* the boards initPuzzle(size) can end its loop with, for the sizes of the
\* generator specification
GenResults ==
    [size \in GenSizes |-> GeneratedBoards(size, MaxGenShuffled, MaxGenBack)]

GenCreate ==
    /\ puzzle.tiles = EmptyArray
    /\ \E size \in GenSizes :
          /\ gridSize' = size
          /\ \E shuffledTiles \in GenResults[size] :
                initPuzzleWith(size, shuffledTiles)
    /\ UNCHANGED <<image, loop>>

GenMove ==
    /\ puzzle.moves < MaxMoves
    /\ \E index \in RenderedCells : handleTileClick(index)

NextGen ==
    \/ GenCreate
    \/ GenMove

SpecGen == Init /\ [][NextGen]_vars

----------------------------------------------------------------------------
(* Legal slides from the solved board, on boards coded as numbers:          *)
(* the board b is the number with digit b[i] at place i in base size*size.  *)

\* grid sizes whose slide graph is searched to its end
ReachSizes == {2, 3}

RECURSIVE Pow(_, _)
Pow(b, k) == IF k = 0 THEN 1 ELSE b * Pow(b, k - 1)

RECURSIVE CodeFrom(_, _, _)
CodeFrom(tiles, n, i) ==
    IF i >= n THEN 0 ELSE tiles[i] * Pow(n, i) + CodeFrom(tiles, n, i + 1)

Code(tiles) == CodeFrom(tiles, Length(tiles), 0)

\* the cells handleTileClick accepts when the empty slot is at e
AcceptedCells(size) ==
    [e \in 0..(size * size - 1) |->
        {index \in 0..(size * size - 1) : isAdjacent(index, e, size)}]

\* the code of newTilesOf(tiles, index, e) from the code of tiles
ExchangedCode(code, n, pw, index, e) ==
    LET atIndex == (code \div pw[index]) % n
        atEmpty == (code \div pw[e]) % n
    IN  code + (atEmpty - atIndex) * pw[index] + (atIndex - atEmpty) * pw[e]

\* the index of the empty identifier in the board coded `code`
EmptyOfCode(code, n, pw) == CHOOSE i \in 0..(n - 1) : (code \div pw[i]) % n = n - 1

\* the codes one accepted click from a code of `frontier`
SlidesOf(frontier, n, pw, cells) ==
    {ExchangedCode(fi[1], n, pw, fi[2], EmptyOfCode(fi[1], n, pw)) :
        fi \in {q \in frontier \X (0..(n - 1)) :
                   q[2] \in cells[EmptyOfCode(q[1], n, pw)]}}

\* the codes one slide from the last level that no level holds
NextLevel(n, pw, cells, levels) ==
    {c \in SlidesOf(levels[Len(levels)], n, pw, cells) :
        \A k \in 1..Len(levels) : c \notin levels[Len(levels) + 1 - k]}

\* breadth-first search: levels[k] holds the codes first met after k-1 slides
RECURSIVE SlideSearch(_, _, _, _)
SlideSearch(n, pw, cells, levels) ==
    IF levels[Len(levels)] = {} THEN levels
    ELSE SlideSearch(n, pw, cells, Append(levels, NextLevel(n, pw, cells, levels)))

\* the place values of the codes, per grid size
PowTable ==
    [size \in ReachSizes |->
        [k \in 0..(size * size - 1) |-> Pow(size * size, k)]]

CellsTable == [size \in ReachSizes |-> AcceptedCells(size)]

\* every board legal slides reach from the solved board of this size
SlideLevels(size) ==
    LET n == size * size
        pw == PowTable[size]
        solved == Code(initialTiles(size))
    IN  SlideSearch(n, pw, CellsTable[size], <<{solved}>>)

InLevels(levels, codes) ==
    \A c \in codes : \E k \in 1..Len(levels) : c \in levels[k]

----------------------------------------------------------------------------
(* Properties of the generator *)

\* each of 0..n-1 exactly once, at the indices 0..n-1
IsPermutation(tiles, n) ==
    /\ DOMAIN tiles = 0..(n - 1)
    /\ \A v \in 0..(n - 1) : Cardinality({i \in DOMAIN tiles : tiles[i] = v}) = 1

\* the board in board order without the empty identifier
RECURSIVE WithoutEmpty(_, _, _)
WithoutEmpty(tiles, n, i) ==
    IF i >= n THEN <<>>
    ELSE IF tiles[i] = n - 1 THEN WithoutEmpty(tiles, n, i + 1)
         ELSE <<tiles[i]>> \o WithoutEmpty(tiles, n, i + 1)

\* The parity rule as the specification words it: inversions of the board
\* without the empty identifier; N odd: an even count; N even: with the
\* empty row counted from the bottom (N - row from the top), exactly one of
\* "row even" and "count even".
ParityRule(tiles, N) ==
    LET n == N * N
        flat == WithoutEmpty(tiles, n, 0)
        count == Cardinality({ij \in (1..Len(flat)) \X (1..Len(flat)) :
                                 ij[1] < ij[2] /\ flat[ij[1]] > flat[ij[2]]})
        rowFromBottom == N - ((CHOOSE i \in 0..(n - 1) : tiles[i] = n - 1) \div N)
    IN  IF N % 2 = 1 THEN count % 2 = 0
        ELSE (rowFromBottom % 2 = 0) # (count % 2 = 0)

\* a state of a session no move was made in: the board is the generated one
FreshBoard == puzzle.tiles # EmptyArray /\ puzzle.moves = 0

\* C1: every board initPuzzle(N) stores is a permutation of 0..N*N-1, is not
\* the solved sequence, passes the parity rule, and is stored with
\* emptyIndex at the index of N*N-1.
C1_GeneratedBoardValid ==
    FreshBoard =>
        /\ IsPermutation(puzzle.tiles, gridSize * gridSize)
        /\ puzzle.tiles # initialTiles(gridSize)
        /\ ParityRule(puzzle.tiles, gridSize)
        /\ puzzle.emptyIndex \in DOMAIN puzzle.tiles
        /\ puzzle.tiles[puzzle.emptyIndex] = gridSize * gridSize - 1

\* a generated 4x4 board whose empty slot left the bottom row
C1_Witness ==
    /\ FreshBoard
    /\ gridSize = 4
    /\ puzzle.emptyIndex < 12

\* C2: every board initPuzzle(N) can store is reached from the solved board
\* by accepted clicks (slides), for N = 2 and N = 3; and the coded slides of
\* the search are the exchanges handleTileClick makes.
C2_GeneratedBoardsReachable ==
    /\ puzzle.tiles = EmptyArray =>
          \A size \in ReachSizes :
              InLevels(SlideLevels(size), {Code(b) : b \in GenResults[size]})
    /\ (puzzle.tiles # EmptyArray /\ gridSize \in ReachSizes) =>
          \A index \in RenderedCells :
              isAdjacent(index, puzzle.emptyIndex, gridSize) =>
                  Code(newTilesOf(puzzle.tiles, index, puzzle.emptyIndex))
                    = ExchangedCode(Code(puzzle.tiles), gridSize * gridSize,
                                    PowTable[gridSize], index, puzzle.emptyIndex)

\* a generated 3x3 board with the first cell displaced
C2_Witness ==
    /\ FreshBoard
    /\ gridSize = 3
    /\ puzzle.tiles[0] # 0

----------------------------------------------------------------------------
(* Properties of the session *)

\* the session states of the specification
Uninitialized == ~puzzle.isStarted
Active == puzzle.isStarted /\ ~puzzle.isSolved
Solved == puzzle.isStarted /\ puzzle.isSolved

\* the N the board was generated with: N * N cells
BoardSize == CHOOSE N \in 0..Length(puzzle.tiles) : N * N = Length(puzzle.tiles)

\* p is one step from e along a row or a column of the N x N board
\* (row = p div N, col = p mod N)
RowColumnAdjacent(p, e, N) ==
    LET row == p \div N
        col == p % N
        eRow == e \div N
        eCol == e % N
    IN  \/ (row = eRow /\ (col - eCol = 1 \/ eCol - col = 1))
        \/ (col = eCol /\ (row - eRow = 1 \/ eRow - row = 1))

\* C3: in an Active session a click on a cell that is not row/column-adjacent
\* to the empty slot on the board leaves the snapshot (board, emptyIndex,
\* moves, seconds, state) unchanged.
C3_NonAdjacentIgnored ==
    Active =>
        \A index \in RenderedCells :
            ~RowColumnAdjacent(index, puzzle.emptyIndex, BoardSize) =>
                Clicked(puzzle, gridSize, index) = puzzle

\* C4: in an Active session a click on a cell row/column-adjacent to the
\* empty slot exchanges the entries at that cell and at the empty slot,
\* changes no other entry, adds 1 to moves and sets emptyIndex to the cell.
C4_AdjacentSwaps ==
    Active =>
        \A index \in RenderedCells :
            RowColumnAdjacent(index, puzzle.emptyIndex, BoardSize) =>
                LET after == Clicked(puzzle, gridSize, index)
                IN  /\ DOMAIN after.tiles = DOMAIN puzzle.tiles
                    /\ after.tiles[index] = puzzle.tiles[puzzle.emptyIndex]
                    /\ after.tiles[puzzle.emptyIndex] = puzzle.tiles[index]
                    /\ \A i \in DOMAIN puzzle.tiles :
                          (i # index /\ i # puzzle.emptyIndex) =>
                              after.tiles[i] = puzzle.tiles[i]
                    /\ after.moves = puzzle.moves + 1
                    /\ after.emptyIndex = index

\* C5: once the session is Solved no handleTileClick, for any position, and
\* no tick changes the snapshot: the snapshot changes only by initPuzzle
\* (resetGame) or by dropping a new image, and no interval is running.
C5_SolvedFrozen ==
    [][Solved =>
          /\ intervals = 0
          /\ (\A index \in ApiPositions :
                 handleTileClick(index) => puzzle' = puzzle)
          /\ (puzzle' # puzzle => (resetGame \/ onDrop))]_vars

\* a session solved by a move, its interval cleared
C5_Witness ==
    /\ Solved
    /\ puzzle.moves >= 1
    /\ timerRef = "cleared"

\* C6: an accepted click sets isSolved exactly when the board after the
\* exchange is the identity sequence; in a started session isSolved holds
\* exactly when the board is the identity sequence.
C6_SolvedIffIdentity ==
    /\ puzzle.isStarted =>
          (puzzle.isSolved <=> puzzle.tiles = initialTiles(BoardSize))
    /\ \A index \in RenderedCells :
          ClickAccepted(puzzle, gridSize, index) =>
              LET after == Clicked(puzzle, gridSize, index)
              IN  after.isSolved <=> after.tiles = initialTiles(BoardSize)

\* a 4x4 session whose first move solved the board
C6_Witness ==
    /\ puzzle.isStarted
    /\ puzzle.isSolved
    /\ puzzle.moves = 1
    /\ puzzle.tiles = initialTiles(4)

\* The walks of the empty slot that scramble the solved N x N board by at
\* most `steps` legal slides: the positions of the empty slot, from N*N-1 on.
RECURSIVE ScrambleWalks(_, _)
ScrambleWalks(N, steps) ==
    IF steps = 0 THEN {<<N * N - 1>>}
    ELSE LET shorter == ScrambleWalks(N, steps - 1)
             longest == {w \in shorter : Len(w) = steps}
             longer == {Append(w, c) : w \in longest, c \in 0..(N * N - 1)}
         IN  shorter \cup
             {x \in longer : RowColumnAdjacent(x[Len(x)], x[Len(x) - 1], N)}

\* the board the first k slides of the walk leave, from `tiles`
RECURSIVE Scrambled(_, _, _)
Scrambled(tiles, walk, k) ==
    IF k <= 1 THEN tiles
    ELSE LET before == Scrambled(tiles, walk, k - 1)
         IN  SwapEntries(before, walk[k], walk[k - 1])

\* the puzzle after clicking back along the walk: the cells walk[k-1], ..., walk[1]
RECURSIVE ClickedBack(_, _, _)
ClickedBack(p, walk, k) ==
    IF k <= 1 THEN p
    ELSE ClickedBack(Clicked(p, gridSize, walk[k - 1]), walk, k - 1)

\* C7: from a board scrambled out of the solved board by legal slides, the
\* clicks that reverse the slides return the board to the solved sequence;
\* and a legal move followed, in a session still Active, by a click on the
\* previous empty position restores the previous board.
C7_ReverseRestoresSolved ==
    Active =>
        /\ \A walk \in ScrambleWalks(BoardSize, MaxMoves) :
              Scrambled(initialTiles(BoardSize), walk, Len(walk)) = puzzle.tiles =>
                  ClickedBack(puzzle, walk, Len(walk)).tiles
                    = initialTiles(BoardSize)
        /\ \A index \in RenderedCells :
              RowColumnAdjacent(index, puzzle.emptyIndex, BoardSize) =>
                  LET after == Clicked(puzzle, gridSize, index)
                  IN  ~after.isSolved =>
                        Clicked(after, gridSize, puzzle.emptyIndex).tiles
                          = puzzle.tiles

\* C8: initPuzzle, from any state, leaves a started, unsolved session with a
\* generated board (a permutation that is not the identity, emptyIndex at
\* the empty identifier), moves = 0 and seconds = 0, and one running timer.
C8_CreateReplacesAll ==
    [][(image /\ resetGame) =>
          /\ puzzle'.isStarted
          /\ ~puzzle'.isSolved
          /\ puzzle'.moves = 0
          /\ puzzle'.seconds = 0
          /\ IsPermutation(puzzle'.tiles, gridSize * gridSize)
          /\ puzzle'.tiles # initialTiles(gridSize)
          /\ puzzle'.tiles[puzzle'.emptyIndex] = gridSize * gridSize - 1
          /\ intervals' = 1]_vars

\* a freshly created 5x5 session, its timer running
C8_Witness ==
    /\ Active
    /\ puzzle.moves = 0
    /\ puzzle.seconds = 0
    /\ Length(puzzle.tiles) = 25
    /\ timerRef = "live"

\* C9: a timer tick adds to seconds only in the Active state: no tick is
\* taken while the session is Uninitialized or Solved.
C9_TickOnlyWhenActive ==
    [][~Active => ~Tick]_vars

\* C10: handleTileClick with a position outside 0..length-1 changes nothing,
\* in every state.
C10_OutOfRangeIgnored ==
    \A index \in ApiPositions :
        index \notin 0..(Length(puzzle.tiles) - 1) =>
            Clicked(puzzle, gridSize, index) = puzzle

\* C11: handleTileClick while the session is Uninitialized (never started, or
\* un-started by a dropped image) is ignored for every position, adjacent to
\* the stored emptyIndex or not: the puzzle state and the timer are unchanged.
C11_UninitializedIgnored ==
    Uninitialized =>
        \A index \in ApiPositions :
            /\ ~ClickAccepted(puzzle, gridSize, index)
            /\ Clicked(puzzle, gridSize, index) = puzzle

\* an un-started session that keeps a board with a cell next to the stored
\* empty index
C11_Witness ==
    /\ Uninitialized
    /\ puzzle.tiles # EmptyArray
    /\ \E index \in RenderedCells :
          isAdjacent(index, puzzle.emptyIndex, gridSize)

\* C12: in every state with a board present, reached by initPuzzle, tile
\* clicks, ticks, image drops and grid size selections, the board is a
\* permutation of 0..N*N-1 for the N it was generated with, and emptyIndex
\* is the index of N*N-1 in the board.
C12_BoardPermutation ==
    puzzle.tiles # EmptyArray =>
        \E N \in GridSizes :
            /\ DOMAIN puzzle.tiles = 0..(N * N - 1)
            /\ {puzzle.tiles[i] : i \in DOMAIN puzzle.tiles} = 0..(N * N - 1)
            /\ puzzle.emptyIndex \in DOMAIN puzzle.tiles
            /\ puzzle.tiles[puzzle.emptyIndex] = N * N - 1

\* a board moved twice and un-started by a dropped image, another grid size
\* selected since it was generated
C12_Witness ==
    /\ puzzle.tiles # EmptyArray
    /\ puzzle.moves = 2
    /\ puzzle.seconds = 1
    /\ ~puzzle.isStarted
    /\ gridSize # BoardSize

\* C13: the grid size is fixed for the lifetime of a session: in every state
\* with a board present, the gridSize handleTileClick computes rows, columns
\* and adjacency with is the N of the board: Length(tiles) = gridSize * gridSize.
C13_GridSizeFixed ==
    puzzle.tiles # EmptyArray =>
        Length(puzzle.tiles) = gridSize * gridSize

\* C14: the session state moves only from Uninitialized to Active (initPuzzle),
\* from Active to Solved (a tile click) and from any state to Active
\* (initPuzzle): a started session is never un-started, and Solved is left
\* only by initPuzzle.
C14_StateTransitions ==
    [][/\ ~Uninitialized => ~Uninitialized'
       /\ (Uninitialized /\ ~Uninitialized') => (Active' /\ image /\ resetGame)
       /\ (Solved /\ ~Solved') => (Active' /\ image /\ resetGame)
       /\ (Active /\ Solved') =>
             \E index \in ApiPositions : handleTileClick(index)]_vars

\* C15: at most one interval is running in every state, and timerRef holds a
\* live id exactly when one is running, so that initPuzzle cancels it before
\* it starts the next (one elapsed second adds exactly 1 to seconds); no
\* interval is running while the session is Solved.
C15_AtMostOneTimer ==
    /\ intervals \in {0, 1}
    /\ (intervals = 1) <=> (timerRef = "live")
    /\ Solved => intervals = 0

\* a 4x4 session with its one interval running after a tick and a move
C15_Witness ==
    /\ Active
    /\ intervals = 1
    /\ puzzle.seconds = 1
    /\ puzzle.moves = 1
    /\ Length(puzzle.tiles) = 16

----------------------------------------------------------------------------
(* Clicks handled by a render that is behind the state: a tick's update is  *)
(* queued outside any click, so a click can be handled by the handler of a  *)
(* render that has not seen the last ticks.  Clicks, the start button and   *)
(* the grid size buttons are rendered before the next click is handled.     *)

\* the puzzle objects the handler on the page can have closed over: the
\* state without its last ticks
PendingRenders == {[puzzle EXCEPT !.seconds = s] : s \in 0..puzzle.seconds}

\* the state handleTileClick(index) leaves when its closure holds `render`
\* and the state its updater is applied to is `prev`
ClickedFrom(render, prev, size, index) ==
    IF ClickAccepted(render, size, index) THEN Moved(render, prev, index) ELSE prev

handleTileClickOf(render, index) ==
    /\ puzzle' = ClickedFrom(render, puzzle, gridSize, index)
    /\ IF /\ ClickAccepted(render, gridSize, index)
          /\ solvedTiles(newTilesOf(render.tiles, index, render.emptyIndex))
       THEN intervals' = AfterClear /\ timerRef' = ClearedRef
       ELSE UNCHANGED <<timerRef, intervals>>
    /\ UNCHANGED <<image, gridSize, loop>>

RenderedTileClick ==
    /\ image /\ puzzle.isStarted /\ ~puzzle.isSolved
    /\ puzzle.moves < MaxMoves
    /\ \E render \in PendingRenders :
          \E index \in RenderedCells : handleTileClickOf(render, index)

NextRender ==
    \/ RenderedTileClick
    \/ Tick
    \/ StartClick
    \/ SizeClick
    \/ DropImage
    \/ OtherImageClick

SpecRender == Init /\ [][NextRender]_vars

\* C16: moves and ticks are serialized.  In every state, a click handled by
\* a render that is any number of ticks behind leaves the state the same
\* click leaves when it is validated and applied against the current state,
\* so no tick is lost; a tick adds exactly 1 to seconds; and outside
\* initPuzzle moves goes up, by exactly 1, exactly when two entries of the
\* board are exchanged.
C16_MovesAndTicksSerialized ==
    /\ [](\A index \in RenderedCells :
             \A render \in PendingRenders :
                 LET left == ClickedFrom(render, puzzle, gridSize, index)
                 IN  /\ left = Clicked(puzzle, gridSize, index)
                     /\ left.seconds = puzzle.seconds)
    /\ [][/\ Tick => puzzle'.seconds = puzzle.seconds + 1
          /\ ~(image /\ resetGame) =>
                /\ puzzle'.moves \in {puzzle.moves, puzzle.moves + 1}
                /\ (puzzle'.moves = puzzle.moves + 1) <=>
                       (puzzle'.tiles # puzzle.tiles)]_vars

\* a 3x3 session in which a tick and two moves were recorded
C16_Witness ==
    /\ Active
    /\ puzzle.seconds = 1
    /\ puzzle.moves = 2
    /\ Length(puzzle.tiles) = 9

----------------------------------------------------------------------------
(* One call of initPuzzle followed through its do-while loop: a shuffle    *)
(* (line 65), the test of the loop condition (line 66), then either the    *)
(* next shuffle or the statements after the loop.                           *)

\* the arrays shuffle(initialTiles) can return, per grid size
LoopShuffles ==
    [size \in GenSizes |->
        {shuffle(initialTiles(size), d) :
            d \in Draws(size * size, MaxLoopShuffled, MaxLoopBack)}]

\* initPuzzle(size) is called and makes its first shuffle
LoopStart ==
    /\ loop.pc = "idle"
    /\ \E size \in GenSizes :
          /\ gridSize' = size
          /\ \E shuffled \in LoopShuffles[size] :
                loop' = [pc |-> "test", shuffledTiles |-> shuffled, rejected |-> 0]
    /\ UNCHANGED <<image, puzzle, timerRef, intervals>>

\* the loop condition holds: the board is rejected and shuffled again
LoopAgain ==
    /\ loop.pc = "test"
    /\ ~LoopExits(loop.shuffledTiles, gridSize)
    /\ \E shuffled \in LoopShuffles[gridSize] :
          loop' = [loop EXCEPT !.shuffledTiles = shuffled,
                               !.rejected = IF @ < MaxRejected THEN @ + 1 ELSE @]
    /\ UNCHANGED <<image, gridSize, puzzle, timerRef, intervals>>

\* the loop condition fails: setPuzzle and the timer, then the call returns
LoopEnd ==
    /\ loop.pc = "test"
    /\ LoopExits(loop.shuffledTiles, gridSize)
    /\ initPuzzleWith(gridSize, loop.shuffledTiles)
    /\ loop' = [loop EXCEPT !.pc = "returned"]
    /\ UNCHANGED <<image, gridSize>>

\* a shuffle of the loop that returns a board the loop will be left with
LoopDrawsAccepted ==
    LoopAgain /\ LoopExits(loop'.shuffledTiles, gridSize)

NextLoop ==
    \/ LoopStart
    \/ LoopAgain
    \/ LoopEnd

\* Math.random is fair: a board the loop accepts is not avoided for ever
SpecLoop ==
    /\ Init
    /\ [][NextLoop]_vars
    /\ WF_vars(LoopEnd)
    /\ WF_vars(LoopDrawsAccepted)

\* C17: for every grid size from 2 on (2..5 here) some shuffle is solvable
\* and not the identity, and under fair random draws a call of initPuzzle
\* that is inside its loop eventually leaves it and returns.
C17_LoopTerminates ==
    /\ [](\A size \in GenSizes :
             \E shuffled \in LoopShuffles[size] : LoopExits(shuffled, size))
    /\ (loop.pc = "test") ~> (loop.pc = "returned")

\* a call of initPuzzle(2) that returned after its loop rejected a shuffle
C17_Witness ==
    /\ loop.pc = "returned"
    /\ loop.rejected >= 1
    /\ gridSize = 2
    /\ puzzle.tiles = loop.shuffledTiles

----------------------------------------------------------------------------
(* isSolvable against the slide graph *)

\* the board coded `code`
Decoded(code, n, pw) == [i \in 0..(n - 1) |-> (code \div pw[i]) % n]

\* the index of the identifier v in the board coded `code`
PlaceOfCode(code, n, pw, v) == CHOOSE i \in 0..(n - 1) : (code \div pw[i]) % n = v

\* the code of the board with the tiles 0 and 1 exchanged: no slide, both
\* are tiles
TilesExchanged(code, n, pw) ==
    ExchangedCode(code, n, pw, PlaceOfCode(code, n, pw, 0), PlaceOfCode(code, n, pw, 1))

RECURSIVE Factorial(_)
Factorial(n) == IF n <= 1 THEN 1 ELSE n * Factorial(n - 1)

RECURSIVE BoardsIn(_, _)
BoardsIn(levels, k) ==
    IF k = 0 THEN 0 ELSE Cardinality(levels[k]) + BoardsIn(levels, k - 1)

\* isSolvable is TRUE on every board the slides reach from the solved board
\* and FALSE on each of them with the tiles 0 and 1 exchanged, none of which
\* the slides reach; the boards reached are half of the permutations, so the
\* exchanged ones are all the others.
ExactOn(size) ==
    LET n == size * size
        pw == PowTable[size]
        levels == SlideLevels(size)
    IN  /\ 2 * BoardsIn(levels, Len(levels)) = Factorial(n)
        /\ \A k \in 1..Len(levels) :
              \A c \in levels[k] :
                  LET other == TilesExchanged(c, n, pw)
                  IN  /\ isSolvable(Decoded(c, n, pw), size)
                      /\ ~isSolvable(Decoded(other, n, pw), size)
                      /\ \A j \in 1..Len(levels) : other \notin levels[j]

\* C18: isSolvable is exact.  For N = 2 and N = 3 it is TRUE on exactly the
\* permutations legal slides reach from the solved board; and on every board
\* the loop tests (N in 2..5) it is the parity rule as the specification
\* words it.
C18_ParityExact ==
    /\ loop.pc = "idle" => \A size \in ReachSizes : ExactOn(size)
    /\ loop.pc = "test" =>
          isSolvable(loop.shuffledTiles, gridSize)
            = ParityRule(loop.shuffledTiles, gridSize)

\* the loop testing a 4x4 shuffle that the parity rule rejects
C18_Witness ==
    /\ loop.pc = "test"
    /\ gridSize = 4
    /\ ~ParityRule(loop.shuffledTiles, 4)

----------------------------------------------------------------------------
(* Properties of the session, continued *)

\* C19: solvability is preserved for the whole session: in every state with
\* a board present, after any tile clicks, ticks and grid size selections,
\* the board passes the parity test for the N it was generated with.
C19_SolvabilityPreserved ==
    puzzle.tiles # EmptyArray =>
        /\ ParityRule(puzzle.tiles, BoardSize)
        /\ isSolvable(puzzle.tiles, BoardSize)

\* C20: the counters are independent.  A tick adds exactly 1 to seconds and
\* changes nothing else of the puzzle state; in every state a
\* handleTileClick, accepted or not, leaves seconds unchanged; and outside
\* initPuzzle neither moves nor seconds goes down.
C20_CountersIndependent ==
    /\ [](\A index \in ApiPositions :
             Clicked(puzzle, gridSize, index).seconds = puzzle.seconds)
    /\ [][/\ Tick =>
                /\ puzzle'.seconds = puzzle.seconds + 1
                /\ puzzle'.tiles = puzzle.tiles
                /\ puzzle'.emptyIndex = puzzle.emptyIndex
                /\ puzzle'.moves = puzzle.moves
                /\ puzzle'.isStarted = puzzle.isStarted
                /\ puzzle'.isSolved = puzzle.isSolved
          /\ (puzzle'.moves < puzzle.moves \/ puzzle'.seconds < puzzle.seconds) =>
                (image /\ resetGame)]_vars

\* a 5x5 session that recorded a tick and two moves
C20_Witness ==
    /\ Active
    /\ puzzle.seconds = 1
    /\ puzzle.moves = 2
    /\ Length(puzzle.tiles) = 25

=============================================================================
